---- MODULE Spec2Model ----
(***************************************************************************)
(* Model of checkin.py: the multi-account check-in run (main), the         *)
(* per-account processing (check_in_account), the browser check-in session *)
(* (run_playwright_checkin) and the balance-hash ledger                    *)
(* (load_balance_hash, save_balance_hash, generate_balance_hash).          *)
(*                                                                         *)
(* Environment assumptions, stated once:                                   *)
(*  - the browser, the HTTP endpoint and the account configuration are     *)
(*    inputs: every answer they can give is drawn with \E at the step      *)
(*    that asks for it;                                                    *)
(*  - leaving `async with async_playwright()` stops the Playwright driver, *)
(*    which terminates every browser the driver launched;                  *)
(*  - Browser.close(), account.get_display_name(), the balance file and    *)
(*    notify.push_message() do not raise (push_message is outside          *)
(*    checkin.py; save_balance_hash catches its own errors).               *)
(***************************************************************************)
EXTENDS Integers, Sequences, FiniteSets, TLC

\* ---------------------------------------------------------------- bounds
MaxAccounts == 2
MaxMatches == 2

\* ------------------------------------------------------- program constants
\* len(button_texts), checkin.py line 141
NumButtonTexts == 5

\* --------------------------------------------------------- input domains
\* Quota and used-quota values a successful balance probe can report.
Quotas == {5, 10}
Useds == {2}

\* Python's None for an optional value; Some(x) wraps a present value.
None == << >>
Some(x) == << x >>
IsNone(o) == Len(o) = 0

\* An account as loaded by load_accounts_config: whether its provider key
\* resolves, and whether parse_cookies(account.cookies) is non-empty.
AccountConfig == [provider : {"known", "missing"}, cookies : {"valid", "empty"}]
AccountInputs ==
    { a \in AccountConfig : a.provider = "missing" => a.cookies = "valid" }

AccountLists ==
    UNION { [1..n -> AccountInputs] : n \in 0..MaxAccounts }

\* user_info as returned by check_in_account: None (balance block raised),
\* {'success': False, ...} or {'success': True, 'quota', 'used_quota', ...}.
UserInfoNone == [kind |-> "none", quota |-> 0, used |-> 0]
UserInfoFail == [kind |-> "fail", quota |-> 0, used |-> 0]
UserInfoOk(q, u) == [kind |-> "ok", quota |-> q, used |-> u]

\* One entry of notification_content / of the pushed message.
Line(kind, a, x, y) == [kind |-> kind, acct |-> a, x |-> x, y |-> y]

VARIABLES
    \* persisted state and process bookkeeping
    stored,               \* content of balance_hash.txt, None when absent
    pc,                   \* position of the running process
    exitCode,             \* argument of sys.exit, -1 while running
    pushed,               \* message handed to notify.push_message, or None
    writes,               \* calls of save_balance_hash in this run
    outcomes,             \* what check_in_account did for each account so far
    probes,               \* what the balance probe did for each account so far
    \* locals of main
    accounts, last_balance_hash, success_count, total_count,
    notification_content, current_balances, need_notify, balance_changed,
    current_balance_hash, i,
    \* locals of check_in_account
    check_in_result, user_info, raised,
    probeCalls,           \* calls of get_user_info for the current account
    \* browser side of run_playwright_checkin
    browsers,             \* accounts whose browser is open
    opened,               \* browsers launched by the current call
    loginPage,            \* the address reached is a login page
    timedOut,             \* a wait of the current call ran into its timeout
    content,              \* page.content() of line 133: unread, signed, plain
    b, e, count,          \* button-text index, element index, locator.count()
    clicked,
    discovery,            \* a locator has been evaluated in this call
    clickAttempted,       \* element.click() has been called in this call
    postStatus,           \* response to the request the click set off:
                          \* none seen, ok (200) or error (another status)
    exitPath,             \* how the current call left the session
    \* harness of the pure functions
    fnIn,                 \* the input drawn for the function
    fnOut                 \* None, or Some(result) once it has been applied

mainVars ==
    << accounts, last_balance_hash, success_count, total_count,
       notification_content, current_balances, need_notify, balance_changed,
       current_balance_hash, i >>
acctVars == << check_in_result, user_info, raised, probeCalls >>
sessVars ==
    << browsers, opened, loginPage, timedOut, content, b, e, count, clicked,
       discovery, clickAttempted, postStatus, exitPath >>
procVars == << stored, exitCode, pushed, writes, outcomes, probes >>
fnVars == << fnIn, fnOut >>
processVars == << pc, procVars, mainVars, acctVars, sessVars >>
vars == << processVars, fnVars >>

\* -------------------------------------------------------- balance ledger
\* current_balances is a dict in insertion order: a sequence of entries
\* [key, quota, used] with unique keys (account_<key>).
HasKey(balances, k) == \E j \in 1..Len(balances) : balances[j].key = k
Lookup(balances, k) ==
    balances[CHOOSE j \in 1..Len(balances) : balances[j].key = k]
DictSet(balances, k, q, u) ==
    IF HasKey(balances, k)
    THEN [j \in 1..Len(balances) |->
            IF balances[j].key = k
            THEN [key |-> k, quota |-> q, used |-> u] ELSE balances[j]]
    ELSE Append(balances, [key |-> k, quota |-> q, used |-> u])

RECURSIVE InsertSorted(_, _)
InsertSorted(p, s) ==
    IF s = << >> THEN << p >>
    ELSE IF p[1] <= Head(s)[1] THEN << p >> \o s
    ELSE << Head(s) >> \o InsertSorted(p, Tail(s))

RECURSIVE SortedPairs(_)
SortedPairs(s) ==
    IF s = << >> THEN << >>
    ELSE InsertSorted(Head(s), SortedPairs(Tail(s)))

\* The fingerprint, were the whole snapshot serialised.
generate_balance_hash_WithUsed(balances) ==
    SortedPairs([j \in 1..Len(balances) |->
                    << balances[j].key, balances[j].quota, balances[j].used >>])

\* generate_balance_hash: {key: quota} serialised with sorted keys, then
\* hashed. The SHA-256 prefix is modelled as injective: the fingerprint is
\* the canonical serialisation itself.
generate_balance_hash(balances) ==
    SortedPairs([j \in 1..Len(balances) |->
                    << balances[j].key, balances[j].quota >>])

\* The load, were the file never found.
load_balance_hash_NoFile == None

\* load_balance_hash: the file's content, None when there is no file.
load_balance_hash == stored

\* ------------------------------------------------------------ the process
\* No process has started yet.
NotStarted ==
    /\ pc = "idle"
    /\ exitCode = -1
    /\ pushed = None
    /\ writes = 0
    /\ outcomes = << >>
    /\ probes = << >>
    /\ accounts = << >>
    /\ last_balance_hash = None
    /\ success_count = 0
    /\ total_count = 0
    /\ notification_content = << >>
    /\ current_balances = << >>
    /\ need_notify = FALSE
    /\ balance_changed = FALSE
    /\ current_balance_hash = None
    /\ i = 0
    /\ check_in_result = FALSE
    /\ user_info = UserInfoNone
    /\ raised = FALSE
    /\ probeCalls = 0
    /\ browsers = {}
    /\ opened = 0
    /\ loginPage = FALSE
    /\ timedOut = FALSE
    /\ content = "unread"
    /\ b = 0
    /\ e = 0
    /\ count = 0
    /\ clicked = FALSE
    /\ discovery = FALSE
    /\ clickAttempted = FALSE
    /\ postStatus = "none"
    /\ exitPath = "none"

\* The state before the first process starts: no balance file.
InitProcess ==
    /\ stored = None
    /\ NotStarted

Init ==
    /\ InitProcess
    /\ fnIn = None
    /\ fnOut = None

ResetAcct ==
    /\ check_in_result' = FALSE
    /\ user_info' = UserInfoNone
    /\ raised' = FALSE
    /\ probeCalls' = 0

ResetSess ==
    /\ opened' = 0
    /\ loginPage' = FALSE
    /\ timedOut' = FALSE
    /\ content' = "unread"
    /\ b' = 0
    /\ e' = 0
    /\ count' = 0
    /\ clicked' = FALSE
    /\ discovery' = FALSE
    /\ clickAttempted' = FALSE
    /\ postStatus' = "none"
    /\ exitPath' = "none"

\* main, lines 298-320: a new process starts (the first one, or the next
\* scheduled run after the previous process has exited), loads the accounts
\* and the persisted hash; an empty account list exits with status 1 at once.
StartRunWith(lists) ==
    /\ pc \in {"idle", "exited"}
    /\ pushed' = None
    /\ writes' = 0
    /\ outcomes' = << >>
    /\ probes' = << >>
    /\ \E accs \in lists :
        /\ accounts' = accs
        /\ IF Len(accs) = 0
           THEN /\ pc' = "exited"
                /\ exitCode' = 1
                /\ last_balance_hash' = None
                /\ total_count' = 0
                /\ i' = 0
           ELSE /\ pc' = "account"
                /\ exitCode' = -1
                /\ last_balance_hash' = load_balance_hash
                /\ total_count' = Len(accs)
                /\ i' = 1
    /\ success_count' = 0
    /\ notification_content' = << >>
    /\ current_balances' = << >>
    /\ need_notify' = FALSE
    /\ balance_changed' = FALSE
    /\ current_balance_hash' = None
    /\ ResetAcct
    /\ UNCHANGED << stored, browsers, fnVars >>
    /\ ResetSess

\* A run over any account list of the bounded set.
StartRun == StartRunWith(AccountLists)

\* A run of a deployment whose ACCOUNTS setting stays what the first run
\* read.
StartRunSame ==
    StartRunWith(IF pc = "idle" THEN AccountLists ELSE {accounts})

\* ------------------------------------------------------ check_in_account
\* What a step inside check_in_account leaves alone besides its own locals.
OutsideAccount == << fnVars, procVars, mainVars >>
\* What a step of the browser session leaves alone.
OutsideSession == << OutsideAccount, user_info, raised, probeCalls >>

\* The early returns, were the provider lookup result not tested.
RejectedEarly_CookiesOnly(a) == a.cookies = "empty"

\* Lines 255 and 262: no provider configuration, or no cookie parsed.
RejectedEarly(a) == a.provider = "missing" \/ a.cookies = "empty"

\* check_in_account, lines 251-264: provider lookup and cookie parsing; a
\* missing provider or an empty cookie set returns (False, None) before any
\* browser work.
CheckInAccountBegin ==
    /\ pc = "account"
    /\ IF RejectedEarly(accounts[i])
       THEN /\ check_in_result' = FALSE
            /\ user_info' = UserInfoNone
            /\ pc' = "record"
       ELSE /\ pc' = "pw_start"
            /\ UNCHANGED << check_in_result, user_info >>
    /\ UNCHANGED << OutsideAccount, raised, probeCalls, sessVars >>

\* ------------------------------------------------- run_playwright_checkin
\* Lines 79-85: entering `async with async_playwright()`. It is outside the
\* function's try block: a failure to start the driver propagates through
\* check_in_account to the try/except of main.
PlaywrightEnter ==
    /\ pc = "pw_start"
    /\ \/ /\ pc' = "launch"
          /\ UNCHANGED raised
       \/ /\ raised' = TRUE
          /\ pc' = "record"
    /\ UNCHANGED << OutsideAccount, check_in_result, user_info, probeCalls,
                    sessVars >>

\* A step of the session that goes on inside the try block: the next
\* position and the loop locals (button-text index, element index, count).
\* Loop locals that no later line reads are kept at 0.
Goto(next, nb, ne, nc) ==
    /\ pc' = next
    /\ b' = nb
    /\ e' = ne
    /\ count' = nc
    /\ UNCHANGED << check_in_result, exitPath >>

\* A return statement of the session: the value returned to
\* check_in_account; control passes to the exit of the async with.
Return(result, path) ==
    /\ check_in_result' = result
    /\ exitPath' = path
    /\ pc' = "pw_exit"
    /\ b' = 0
    /\ e' = 0
    /\ count' = 0

\* Lines 210-212: the except clause of the session; the browser is not
\* closed here, the function returns False from inside the async with.
SessionExcept == Return(FALSE, "exception")

\* Lines 89-92: p.chromium.launch.
Launch ==
    /\ pc = "launch"
    /\ \/ /\ browsers' = browsers \cup {i}
          /\ opened' = opened + 1
          /\ Goto("context", 0, 0, 0)
       \/ /\ SessionExcept
          /\ UNCHANGED << browsers, opened >>
    /\ UNCHANGED << OutsideSession, loginPage, timedOut, content, clicked, discovery,
                    clickAttempted, postStatus >>

\* Lines 94-113: new_context, add_cookies, new_page.
NewContext ==
    /\ pc = "context"
    /\ \/ Goto("goto", 0, 0, 0)
       \/ SessionExcept
    /\ UNCHANGED << OutsideSession, browsers, opened, loginPage, timedOut, content,
                    clicked, discovery, clickAttempted, postStatus >>

\* Lines 115-129: goto and wait_for_load_state swallow their errors, a
\* timeout among them; the settle wait does not. The address the page ends
\* on is the site's choice and no line of the function reads it.
Navigate ==
    /\ pc = "goto"
    /\ loginPage' \in BOOLEAN
    /\ \/ /\ Goto("content", 0, 0, 0)
          /\ timedOut' \in BOOLEAN
       \/ /\ SessionExcept
          /\ UNCHANGED timedOut
    /\ UNCHANGED << OutsideSession, browsers, opened, content, clicked,
                    discovery, clickAttempted, postStatus >>

\* Line 134: one of the already-signed-in markers is in the content.
AlreadySigned_Never(text) == FALSE
AlreadySigned(text) == text = "signed"

\* Lines 131-142: read the content; an already-signed-in marker closes the
\* browser and returns True, otherwise the button search starts with the
\* first text.
ReadContent ==
    /\ pc = "content"
    /\ \/ \E text \in {"signed", "plain"} :
            /\ content' = text
            /\ IF AlreadySigned(text)
               THEN /\ browsers' = browsers \ {i}
                    /\ Return(TRUE, "already")
               ELSE /\ Goto("locate", 1, 0, 0)
                    /\ UNCHANGED browsers
       \/ /\ SessionExcept
          /\ UNCHANGED << browsers, content >>
    /\ UNCHANGED << OutsideSession, opened, loginPage, timedOut, clicked, discovery,
                    clickAttempted, postStatus >>

\* The text loop, were it to start over instead of taking the next text.
NextText_Restart ==
    IF b = NumButtonTexts
    THEN Goto("locate", 1, 0, 0)
    ELSE Goto("locate", b + 1, 0, 0)

\* The `for btn_text in button_texts` loop moves to its next text, or ends
\* without a click (line 170).
NextText ==
    IF b = NumButtonTexts
    THEN Goto("icon", 0, 0, 0)
    ELSE Goto("locate", b + 1, 0, 0)

\* Lines 144-155: exact-text locator, then the containing-text locator when
\* the exact one matches nothing.
Locate ==
    /\ pc = "locate"
    /\ discovery' = TRUE
    /\ \/ \E exact \in 0..MaxMatches, loose \in 0..MaxMatches :
            LET n == IF exact = 0 THEN loose ELSE exact IN
            IF n = 0 THEN NextText ELSE Goto("element", b, 0, n)
       \/ SessionExcept
    /\ UNCHANGED << OutsideSession, browsers, opened, loginPage, timedOut, content,
                    clicked, clickAttempted, postStatus >>

\* What the site answers to the request a click sets off: nothing the page
\* shows, status 200, or another status. No line of the function listens.
PostStatuses == {"none", "ok", "error"}

\* How element.click() ends: done, or raising because its timeout ran out
\* or for another reason.
ClickResults == {"ok", "timeout", "error"}

\* Lines 156-167: element e of the locator: skipped when not visible,
\* clicked when visible; a click that raises (its 5 s timeout included)
\* continues with the next element, is_visible raising leaves through the
\* outer except.
Element ==
    /\ pc = "element"
    /\ \/ \E visible \in BOOLEAN, click \in ClickResults :
            /\ clickAttempted' = (clickAttempted \/ visible)
            /\ clicked' = (visible /\ click = "ok")
            /\ timedOut' = (timedOut \/ (visible /\ click = "timeout"))
            /\ IF visible /\ click = "ok"
               THEN /\ Goto("verify", 0, 0, 0)
                    /\ postStatus' \in PostStatuses
               ELSE /\ IF e + 1 < count
                       THEN Goto("element", b, e + 1, count)
                       ELSE NextText
                    /\ UNCHANGED postStatus
       \/ /\ SessionExcept
          /\ UNCHANGED << clicked, clickAttempted, postStatus, timedOut >>
    /\ UNCHANGED << OutsideSession, browsers, opened, loginPage, content,
                    discovery >>

\* Lines 169-185: the `.ui.button` fallback, whose errors are swallowed, and
\* the "no button" exit: close the browser and return False.
IconButton ==
    /\ pc = "icon"
    /\ discovery' = TRUE
    /\ \E found \in BOOLEAN, click \in ClickResults :
        /\ clickAttempted' = (clickAttempted \/ found)
        /\ clicked' = (found /\ click = "ok")
        /\ timedOut' = (timedOut \/ (found /\ click = "timeout"))
        /\ IF found /\ click = "ok"
           THEN /\ Goto("verify", 0, 0, 0)
                /\ postStatus' \in PostStatuses
                /\ UNCHANGED browsers
           ELSE /\ browsers' = browsers \ {i}
                /\ Return(FALSE, "notfound")
                /\ UNCHANGED postStatus
    /\ UNCHANGED << OutsideSession, opened, loginPage, content >>

\* Lines 187-208: wait, re-read the content, look for a success keyword;
\* is_success ends True with or without one; close and return it.
Verify ==
    /\ pc = "verify"
    /\ \/ \E keyword \in BOOLEAN :
            /\ Return(TRUE, IF keyword THEN "verified" ELSE "assumed")
            /\ browsers' = browsers \ {i}
       \/ /\ SessionExcept
          /\ UNCHANGED browsers
    /\ UNCHANGED << OutsideSession, opened, loginPage, timedOut, content, clicked,
                    discovery, clickAttempted, postStatus >>

\* The exit of the async with, were it to leave a running browser alone.
PlaywrightExit_KeepBrowser ==
    /\ pc = "pw_exit"
    /\ pc' = "probe"
    /\ UNCHANGED << OutsideAccount, acctVars, sessVars >>

\* Line 85, leaving the async with: the Playwright driver stops and takes
\* with it a browser the function left open.
PlaywrightExit ==
    /\ pc = "pw_exit"
    /\ browsers' = browsers \ {i}
    /\ pc' = "probe"
    /\ UNCHANGED << OutsideAccount, acctVars, opened, loginPage, timedOut, content,
                    b, e, count, clicked, discovery, clickAttempted,
                    postStatus, exitPath >>

\* check_in_account, lines 269-295, with get_user_info, lines 226-246: the
\* balance query; every failure is turned into a value. The locals of the
\* finished session are gone by now.
BalanceProbe ==
    /\ pc = "probe"
    /\ user_info' \in {UserInfoNone, UserInfoFail}
                      \cup { UserInfoOk(q, u) : q \in Quotas, u \in Useds }
    /\ probeCalls' = probeCalls + 1
    /\ pc' = "record"
    /\ ResetSess
    /\ UNCHANGED << OutsideAccount, check_in_result, raised, browsers >>

\* ------------------------------------------------------------------ main
\* What check_in_account did for account i, as seen by its caller.
Outcome ==
    IF raised THEN "raised"
    ELSE IF check_in_result THEN "success" ELSE "failed"

\* What the balance probe did for account i: not called, called without a
\* balance, or called with one.
ProbeOutcome ==
    IF probeCalls = 0 THEN "skipped"
    ELSE IF user_info.kind = "ok" THEN "ok" ELSE "nodata"

\* The loop, were the try/except around it instead of inside it.
LoopNext_StopOnRaise ==
    IF i < Len(accounts) /\ ~raised
    THEN /\ i' = i + 1
         /\ pc' = "account"
    ELSE /\ pc' = "ledger"
         /\ UNCHANGED i

\* Line 322: the for loop takes the next account, or ends.
LoopNext ==
    IF i < Len(accounts)
    THEN /\ i' = i + 1
         /\ pc' = "account"
    ELSE /\ pc' = "ledger"
         /\ UNCHANGED i

\* The snapshot, were it kept only for an account that checked in.
RecordsSnapshot_OnlyOnSuccess(ok, info) == ok /\ info.kind = "ok"

\* Line 331: user_info and user_info.get('success').
RecordsSnapshot(ok, info) == info.kind = "ok"

\* A failure line for every account, whatever its result.
ResultLines_Always(ok, k) == << Line("FAIL", k, 0, 0) >>

\* Lines 337-341: the failure line of an account that did not succeed.
ResultLines(ok, k) == IF ok THEN << >> ELSE << Line("FAIL", k, 0, 0) >>

\* Lines 322-347: the body of the account loop after check_in_account has
\* returned or raised, and the step to the next account.
Record ==
    /\ pc = "record"
    /\ outcomes' = Append(outcomes, Outcome)
    /\ probes' = Append(probes, ProbeOutcome)
    /\ IF raised
       THEN /\ need_notify' = TRUE
            /\ notification_content' =
                 Append(notification_content, Line("EXC", i, 0, 0))
            /\ UNCHANGED << success_count, current_balances >>
       ELSE /\ success_count' =
                 IF check_in_result THEN success_count + 1 ELSE success_count
            /\ current_balances' =
                 IF RecordsSnapshot(check_in_result, user_info)
                 THEN DictSet(current_balances, i, user_info.quota,
                              user_info.used)
                 ELSE current_balances
            /\ need_notify' = (need_notify \/ ~check_in_result)
            /\ notification_content' =
                 notification_content \o ResultLines(check_in_result, i)
    /\ LoopNext
    /\ ResetAcct
    /\ UNCHANGED << fnVars, stored, exitCode, pushed, writes, accounts,
                    last_balance_hash, total_count, balance_changed,
                    current_balance_hash, sessVars >>

\* Lines 366-371: one balance line per account present in current_balances,
\* in account order.
RECURSIVE BalanceLines(_, _, _)
BalanceLines(balances, k, n) ==
    IF k > n THEN << >>
    ELSE (IF HasKey(balances, k)
          THEN << Line("BALANCE", k, Lookup(balances, k).quota,
                       Lookup(balances, k).used) >>
          ELSE << >>) \o BalanceLines(balances, k + 1, n)

\* Line 350 without its guard: the hash of an empty report.
CurrentHash_NoGuard(balances) == Some(generate_balance_hash(balances))

\* Line 350: the fingerprint of a non-empty report, None for an empty one.
CurrentHash(balances) ==
    IF balances # << >> THEN Some(generate_balance_hash(balances)) ELSE None

\* The comparison, were a first run not to count as a change.
Changed_NoFirstRun(last, h) == ~IsNone(h) /\ ~IsNone(last) /\ h # last

\* Lines 352-362: a fingerprint exists and none was stored, or it differs
\* from the stored one.
Changed(last, h) == ~IsNone(h) /\ (IsNone(last) \/ h # last)

\* Balance lines appended whether or not the fingerprint changed.
ReportLines_Always(changed, balances, n) == BalanceLines(balances, 1, n)

\* Lines 365-371: the balance lines, only when the fingerprint changed.
ReportLines(changed, balances, n) ==
    IF changed THEN BalanceLines(balances, 1, n) ELSE << >>

\* Lines 349-371: fingerprint of the report, comparison with the loaded
\* one, balance lines when it changed.
Ledger ==
    /\ pc = "ledger"
    /\ LET h == CurrentHash(current_balances)
           changed == Changed(last_balance_hash, h)
       IN /\ current_balance_hash' = h
          /\ balance_changed' = changed
          /\ need_notify' = (need_notify \/ changed)
          /\ notification_content' =
               notification_content
                  \o ReportLines(changed, current_balances, Len(accounts))
    /\ pc' = "save"
    /\ UNCHANGED << fnVars, procVars, accounts, last_balance_hash, success_count,
                    total_count, current_balances, i, acctVars, sessVars >>

\* save_balance_hash, lines 37-43.
save_balance_hash(balance_hash) ==
    /\ stored' = balance_hash
    /\ writes' = writes + 1

\* The save, were it not guarded.
ShouldSave_Always == TRUE

\* Line 374.
ShouldSave == ~IsNone(current_balance_hash)

\* Lines 373-375.
Save ==
    /\ pc = "save"
    /\ IF ShouldSave
       THEN save_balance_hash(current_balance_hash)
       ELSE UNCHANGED << stored, writes >>
    /\ pc' = "notify"
    /\ UNCHANGED << fnVars, exitCode, pushed, outcomes, probes, mainVars,
                    acctVars, sessVars >>

\* The push, were it not gated.
ShouldNotify_Always == TRUE

\* Line 378.
ShouldNotify == need_notify /\ notification_content # << >>

\* Lines 377-391: the message is the two summary lines followed by
\* notification_content.
Notify ==
    /\ pc = "notify"
    /\ IF ShouldNotify
       THEN pushed' =
              Some(<< Line("STATS", 0, success_count, total_count),
                      Line("TIME", 0, 0, 0) >> \o notification_content)
       ELSE UNCHANGED pushed
    /\ pc' = "exit"
    /\ UNCHANGED << fnVars, stored, exitCode, writes, outcomes, probes,
                    mainVars, acctVars, sessVars >>

\* Status 0 only when every account succeeded.
ExitStatus_AllSucceeded == IF success_count = total_count THEN 0 ELSE 1

\* Line 393: the argument of sys.exit.
ExitStatus == IF success_count > 0 THEN 0 ELSE 1

\* Line 393.
Exit ==
    /\ pc = "exit"
    /\ exitCode' = ExitStatus
    /\ pc' = "exited"
    /\ UNCHANGED << fnVars, stored, pushed, writes, outcomes, probes, mainVars,
                    acctVars, sessVars >>

\* Every step of a run after its start.
RunStep ==
    \/ CheckInAccountBegin
    \/ PlaywrightEnter
    \/ Launch
    \/ NewContext
    \/ Navigate
    \/ ReadContent
    \/ Locate
    \/ Element
    \/ IconButton
    \/ Verify
    \/ PlaywrightExit
    \/ BalanceProbe
    \/ Record
    \/ Ledger
    \/ Save
    \/ Notify
    \/ Exit

Next ==
    \/ StartRun
    \/ RunStep

Spec == Init /\ [][Next]_vars

\* One process, started on a deployment that has no balance file or the
\* file an earlier process wrote for its first account.
StoredBefore ==
    {None} \cup { Some(generate_balance_hash(
                         << [key |-> 1, quota |-> q, used |-> u] >>)) :
                    q \in Quotas, u \in Useds }

InitOneRun ==
    /\ stored \in StoredBefore
    /\ NotStarted
    /\ fnIn = None
    /\ fnOut = None

StartOnce ==
    /\ pc = "idle"
    /\ StartRun

NextOneRun ==
    \/ StartOnce
    \/ RunStep

\* A process that can take a step takes it: every await of a run returns or
\* raises (lines 117, 124, 129, 162, 176, 188 carry a timeout of their own
\* or the driver's default), and no step of a run waits for anything else.
SpecOneRun == InitOneRun /\ [][NextOneRun]_vars /\ WF_vars(NextOneRun)

\* Successive runs over one account list.
NextSameAccounts ==
    \/ StartRunSame
    \/ RunStep

SpecSameAccounts == Init /\ [][NextSameAccounts]_vars

\* ------------------------------------------- generate_balance_hash alone
\* Used-quota values a probe can report, more than one so that two reports
\* can differ in them alone.
HashUseds == {2, 3}

\* The keys of a report in every insertion order.
KeyOrders(n) ==
    { ks \in [1..n -> 1..MaxAccounts] :
        \A x, y \in 1..n : x # y => ks[x] # ks[y] }

\* Every current_balances main can build for at most MaxAccounts accounts.
Reports ==
    UNION { { [j \in 1..n |->
                 [key |-> ks[j], quota |-> qs[j], used |-> us[j]]] :
                ks \in KeyOrders(n), qs \in [1..n -> Quotas],
                us \in [1..n -> HashUseds] } :
            n \in 0..MaxAccounts }

InitHash ==
    /\ InitProcess
    /\ fnIn \in [a : Reports, b : Reports]
    /\ fnOut = None

\* generate_balance_hash applied to each of the two reports.
HashApply ==
    /\ IsNone(fnOut)
    /\ fnOut' = Some(<< generate_balance_hash(fnIn.a),
                        generate_balance_hash(fnIn.b) >>)
    /\ UNCHANGED << fnIn, processVars >>

SpecHash == InitHash /\ [][HashApply]_vars

\* ---------------------------------------------------- parse_cookies alone
\* A str is the sequence of its characters; a dict is a function from keys
\* to values. The characters that matter to parse_cookies, and a letter.
MaxCookieLen == 4
CookieAlphabet == {"a", " ", "=", ";"}
ExampleCookies ==
    << "a", "=", "1", ";", "b", "=", "2", ";", " ", "c", "=", "3" >>
CookieStrings ==
    UNION { [1..n -> CookieAlphabet] : n \in 0..MaxCookieLen }
        \cup {ExampleCookies}
EmptyDict == [k \in {} |-> << >>]
CookieDicts ==
    { EmptyDict,
      << "a" >> :> << "1" >>,
      (<< " ", "a" >> :> << "1", " " >>) @@ (<< "b" >> :> << >>) }

\* What ACCOUNTS can hold as an account's cookies: a str, a dict, or a JSON
\* value of another type.
CookieInputs ==
    { [type |-> "str", v |-> str] : str \in CookieStrings }
        \cup { [type |-> "dict", v |-> d] : d \in CookieDicts }
        \cup { [type |-> "other", v |-> << >>] }

\* str.strip(): whitespace removed from both ends.
RECURSIVE LStrip(_)
LStrip(str) ==
    IF str # << >> /\ Head(str) = " " THEN LStrip(Tail(str)) ELSE str
RECURSIVE RStrip(_)
RStrip(str) ==
    IF str # << >> /\ str[Len(str)] = " "
    THEN RStrip(SubSeq(str, 1, Len(str) - 1))
    ELSE str
Strip(str) == RStrip(LStrip(str))

Contains(str, c) == \E p \in 1..Len(str) : str[p] = c

\* str.split(sep): the pieces between the separators, empty ones included.
RECURSIVE Split(_, _)
Split(str, sep) ==
    IF Contains(str, sep)
    THEN LET p == CHOOSE p \in 1..Len(str) :
                     /\ str[p] = sep
                     /\ \A q \in 1..(p - 1) : str[q] # sep
         IN << SubSeq(str, 1, p - 1) >>
               \o Split(SubSeq(str, p + 1, Len(str)), sep)
    ELSE << str >>

\* The place of the split, were it taken from the right (rsplit).
SplitPoint_Last(cookie) ==
    CHOOSE p \in 1..Len(cookie) :
        /\ cookie[p] = "="
        /\ \A q \in (p + 1)..Len(cookie) : cookie[q] # "="

\* split('=', 1): the place of the first '='.
SplitPoint(cookie) ==
    CHOOSE p \in 1..Len(cookie) :
        /\ cookie[p] = "="
        /\ \A q \in 1..(p - 1) : cookie[q] # "="

\* Lines 59-62: the loop over the pieces; a later piece overwrites the entry
\* of an earlier one with the same key.
RECURSIVE CookiesOf(_, _)
CookiesOf(pieces, cookies_dict) ==
    IF pieces = << >> THEN cookies_dict
    ELSE LET cookie == Head(pieces)
             stripped == Strip(cookie)
             p == SplitPoint(stripped)
         IN CookiesOf(Tail(pieces),
                IF Contains(cookie, "=")
                THEN (SubSeq(stripped, 1, p - 1)
                         :> SubSeq(stripped, p + 1, Len(stripped)))
                       @@ cookies_dict
                ELSE cookies_dict)

\* parse_cookies, lines 53-65.
parse_cookies(cookies_data) ==
    IF cookies_data.type = "dict" THEN cookies_data.v
    ELSE IF cookies_data.type = "str"
         THEN CookiesOf(Split(cookies_data.v, ";"), EmptyDict)
         ELSE EmptyDict

InitCookies ==
    /\ InitProcess
    /\ fnIn \in CookieInputs
    /\ fnOut = None

ParseCookies ==
    /\ IsNone(fnOut)
    /\ fnOut' = Some(parse_cookies(fnIn))
    /\ UNCHANGED << fnIn, processVars >>

SpecCookies == InitCookies /\ [][ParseCookies]_vars

\* ================================================================ claims
\* Positions of main after the account loop, and the end of a run.
AfterLedger == pc \in {"save", "notify", "exit", "exited"}
RunEnded == pc = "exited" /\ accounts # << >>
FailureLines == SelectSeq(notification_content,
                          LAMBDA l : l.kind \in {"FAIL", "EXC"})
SomeSuccess == \E k \in 1..Len(outcomes) : outcomes[k] = "success"
SomeFailure == \E k \in 1..Len(outcomes) : outcomes[k] \in {"failed", "raised"}

\* C1: at the end of a run over a non-empty account list a notification has
\* been pushed if and only if some account failed (returned failure or
\* raised) or the fingerprint was judged changed; an all-success run with an
\* unchanged or absent fingerprint pushes nothing.
C1_NotifyIffFailureOrChange ==
    RunEnded =>
        /\ ~IsNone(pushed) <=> (SomeFailure \/ balance_changed)
        /\ (~SomeFailure /\ (IsNone(current_balance_hash) \/ ~balance_changed))
              => IsNone(pushed)

\* C1 witness: a run whose probes succeeded, whose accounts all succeeded
\* and whose fingerprint equals the stored one ended without a push.
C1_Witness ==
    /\ RunEnded
    /\ ~SomeFailure
    /\ ~IsNone(current_balance_hash)
    /\ ~balance_changed
    /\ IsNone(pushed)

\* C2: the exit status is 0 exactly when some account's check-in outcome
\* was success, and 1 otherwise, the empty account list included; probe
\* results and the notification play no part.
C2_ExitStatus ==
    /\ pc = "exited" => exitCode = (IF SomeSuccess THEN 0 ELSE 1)
    /\ (pc = "exited" /\ accounts = << >>) => exitCode = 1

\* C2 witness: exit status 0 after a run with a failure, a notification and
\* no successful probe.
C2_Witness ==
    /\ RunEnded
    /\ exitCode = 0
    /\ SomeFailure
    /\ ~IsNone(pushed)
    /\ current_balances = << >>

\* C3: when processing of account i raises, the coordinator appends exactly
\* one failure line for i, leaves success count and balance snapshots as
\* they were, and goes on with the next account; at the end of the run every
\* account has an outcome, a raising account has exactly one failure line,
\* and the exit status is 0 iff some other account succeeded.
C3_ExceptionIsolated ==
    [][ /\ (raised' /\ ~raised) =>
              UNCHANGED << success_count, current_balances,
                           notification_content, outcomes, i >>
        /\ (pc = "record" /\ raised) =>
              /\ notification_content' =
                    Append(notification_content, Line("EXC", i, 0, 0))
              /\ UNCHANGED << success_count, current_balances >>
              /\ IF i < Len(accounts)
                 THEN pc' = "account" /\ i' = i + 1
                 ELSE pc' = "ledger"
        /\ (pc' = "exited" /\ accounts' # << >>) =>
              /\ Len(outcomes') = Len(accounts')
              /\ \A k \in 1..Len(outcomes') :
                    outcomes'[k] = "raised" =>
                       Cardinality({ j \in 1..Len(notification_content') :
                                       notification_content'[j].acct = k }
                                   \ { j \in 1..Len(notification_content') :
                                       notification_content'[j].kind
                                          = "BALANCE" }) = 1
              /\ exitCode' = 0 <=>
                    \E k \in 1..Len(outcomes') : outcomes'[k] = "success"
      ]_vars

\* C3 witness: the first account raised, the second one was still processed
\* and succeeded, and the run exited 0.
C3_Witness ==
    /\ RunEnded
    /\ Len(outcomes) >= 2
    /\ outcomes[1] = "raised"
    /\ outcomes[2] = "success"
    /\ exitCode = 0

\* C4: a session whose navigation ended on a login page returns Failed,
\* having evaluated no locator and issued no click.
C4_LoginRedirectFails ==
    (pc = "probe" /\ loginPage) =>
        /\ check_in_result = FALSE
        /\ ~discovery
        /\ ~clickAttempted

\* C5: once the content read after navigation carries an already-signed-in
\* marker, the session is over with a success result and no locator was
\* evaluated and no click attempted in it.
C5_AlreadySignedNoClick ==
    content = "signed" =>
        /\ pc \in {"pw_exit", "probe"}
        /\ check_in_result = TRUE
        /\ exitPath = "already"
        /\ ~clickAttempted
        /\ ~discovery
        /\ ~clicked

\* C5 witness: a session returned after reading a marker.
C5_Witness == pc = "probe" /\ content = "signed" /\ check_in_result

\* C6: a call of the session launches at most one browser, exactly one on
\* every path that got past the launch, and when the call has returned no
\* browser is open, whichever way it left.
C6_BrowserReleased ==
    /\ opened <= 1
    /\ pc = "probe" =>
          /\ browsers = {}
          /\ exitPath \in {"already", "notfound", "verified", "assumed",
                           "exception"}
          /\ exitPath # "exception" => opened = 1
    /\ pc \in {"context", "goto", "content", "locate", "element", "icon",
               "verify"} => (opened = 1 /\ browsers = {i})

\* C6 witness: a call that raised after its browser was launched has
\* returned.
C6_Witness == pc = "probe" /\ exitPath = "exception" /\ opened = 1

\* C7: at most one browser is open, it belongs to the account being
\* processed, and none is open when an account's provider lookup, driver
\* start, launch or balance probe begins, nor after the loop.
C7_Sequential ==
    /\ Cardinality(browsers) <= 1
    /\ browsers \subseteq {i}
    /\ pc \in {"idle", "account", "pw_start", "launch", "probe", "record",
               "ledger", "save", "notify", "exit", "exited"}
          => browsers = {}

\* C7 witness: the second account's browser is open, alone, after the first
\* account went through a session of its own.
C7_Witness ==
    /\ i = 2
    /\ browsers = {2}
    /\ accounts[1].provider = "known"
    /\ accounts[1].cookies = "valid"
    /\ outcomes = << "failed" >>

\* C8: when the balance report of a run is empty, the stored fingerprint at
\* the end is the one loaded at the start, whatever the outcomes.
C8_EmptyReportKeepsStored ==
    /\ (accounts # << >> /\ current_balances = << >>)
          => stored = last_balance_hash
    /\ (RunEnded /\ current_balances = << >>) => writes = 0

\* C8 witness: a run with a success and a failure, no snapshot, and a
\* fingerprint stored by an earlier run has ended.
C8_Witness ==
    /\ RunEnded
    /\ current_balances = << >>
    /\ ~IsNone(stored)
    /\ SomeSuccess
    /\ SomeFailure

\* C9 as stated: every run over accounts has written the stored fingerprint
\* exactly once when it ends.
C9_WrittenExactlyOnce == RunEnded => writes = 1

\* C9 amended: a run writes the stored fingerprint at most once, only in
\* the save step after every account has been processed and with no browser
\* open; it writes once when its balance report is non-empty and not at all
\* when the report or the account list is empty.
C9_WrittenAtMostOnceAfterAll ==
    [][ /\ (stored' # stored \/ writes' > writes) =>
              /\ pc = "save"
              /\ writes = 0
              /\ writes' = 1
              /\ Len(outcomes) = Len(accounts)
              /\ i = Len(accounts)
              /\ browsers = {}
        /\ pc' = "exited" =>
              writes' = (IF current_balances' # << >> THEN 1 ELSE 0)
      ]_vars

\* C9 witness: a run over two accounts ended having written once.
C9_Witness == RunEnded /\ writes = 1 /\ Len(accounts) = 2

\* The accounts of the balance lines, in the order of the lines.
BalanceAccts ==
    LET bl == SelectSeq(notification_content, LAMBDA l : l.kind = "BALANCE")
    IN [j \in 1..Len(bl) |-> bl[j].acct]

\* C10: after the ledger step the notification lines hold balance lines
\* only if the fingerprint was judged changed; then there is exactly one
\* for each account with a snapshot, with its quota and used quota, in
\* account order, after every failure line; the pushed body is the summary
\* followed by these lines.
C10_BalanceLines ==
    AfterLedger =>
        /\ ~balance_changed => BalanceAccts = << >>
        /\ balance_changed =>
              /\ \A k \in 1..Len(accounts) :
                    Cardinality({ j \in 1..Len(BalanceAccts) :
                                    BalanceAccts[j] = k })
                       = (IF HasKey(current_balances, k) THEN 1 ELSE 0)
              /\ \A j \in 1..Len(BalanceAccts) :
                    BalanceAccts[j] \in 1..Len(accounts)
              /\ \A j1, j2 \in 1..Len(BalanceAccts) :
                    j1 < j2 => BalanceAccts[j1] < BalanceAccts[j2]
              /\ \A j \in 1..Len(notification_content) :
                    LET l == notification_content[j] IN
                    l.kind = "BALANCE" =>
                       /\ l.x = Lookup(current_balances, l.acct).quota
                       /\ l.y = Lookup(current_balances, l.acct).used
        /\ \A j1, j2 \in 1..Len(notification_content) :
              (j1 < j2 /\ notification_content[j1].kind = "BALANCE")
                 => notification_content[j2].kind = "BALANCE"
        /\ ~IsNone(pushed) =>
              SubSeq(pushed[1], 3, Len(pushed[1])) = notification_content

\* C10 witness: a changed fingerprint, a failure line and two balance lines
\* in a pushed body.
C10_Witness ==
    /\ RunEnded
    /\ balance_changed
    /\ ~IsNone(pushed)
    /\ Len(FailureLines) >= 1
    /\ BalanceAccts = << 1, 2 >>

\* C10, the unchanged case: one probe succeeded, another did not, the
\* fingerprint equals the stored one and the pushed body has no balance line.
C10_WitnessUnchanged ==
    /\ RunEnded
    /\ ~balance_changed
    /\ Len(current_balances) = 1
    /\ Len(accounts) = 2
    /\ ~IsNone(pushed)
    /\ BalanceAccts = << >>

\* ---------------------------------------------------------------- C11..C20
Successes == SelectSeq(outcomes, LAMBDA o : o = "success")
LinesAbout(k) ==
    SelectSeq(notification_content,
              LAMBDA l : l.kind \in {"FAIL", "EXC"} /\ l.acct = k)

\* C11 as stated: the balance probe has run for every account processed so
\* far, whatever became of its check-in.
C11_ProbedWhateverTheOutcome ==
    \A k \in 1..Len(probes) : probes[k] # "skipped"

\* C11 amended: the probe runs at most once per account, and exactly once
\* for an account whose provider is configured, whose cookies parse to a
\* non-empty set and whose session did not raise out of check_in_account,
\* whether the session returned success or failure; an account has a
\* snapshot in the report exactly when its probe returned a balance, and
\* the success count is the number of sessions that returned success.
C11_ProbeIndependentOfOutcome ==
    /\ probeCalls <= 1
    /\ Len(probes) = Len(outcomes)
    /\ \A k \in 1..Len(outcomes) :
          /\ probes[k] # "skipped"
                <=> (~RejectedEarly(accounts[k]) /\ outcomes[k] # "raised")
          /\ HasKey(current_balances, k) <=> probes[k] = "ok"
    /\ success_count = Len(Successes)

\* C11 witness: the first account failed its check-in and has a snapshot,
\* the second checked in and its probe returned no balance.
C11_Witness ==
    /\ RunEnded
    /\ outcomes = << "failed", "success" >>
    /\ probes = << "ok", "nodata" >>
    /\ HasKey(current_balances, 1)
    /\ ~HasKey(current_balances, 2)
    /\ success_count = 1

\* C12: once the ledger step has run on a non-empty report with fingerprint
\* F, the balance is judged changed exactly when no fingerprint was loaded
\* or the loaded one differs from F; a run that loaded no fingerprint and in
\* which some probe returned a balance ends with a push and with F stored.
C12_ChangedAgainstPersisted ==
    LET F == Some(generate_balance_hash(current_balances)) IN
    /\ (AfterLedger /\ current_balances # << >>) =>
          /\ current_balance_hash = F
          /\ balance_changed
                <=> (IsNone(last_balance_hash) \/ last_balance_hash # F)
    /\ (RunEnded /\ IsNone(last_balance_hash)
           /\ \E k \in 1..Len(probes) : probes[k] = "ok") =>
          /\ ~IsNone(pushed)
          /\ stored = F

\* C12 witness: a first run in which every account checked in has pushed a
\* message and stored its fingerprint.
C12_Witness ==
    /\ RunEnded
    /\ IsNone(last_balance_hash)
    /\ ~SomeFailure
    /\ balance_changed
    /\ ~IsNone(pushed)
    /\ ~IsNone(stored)
    /\ stored = current_balance_hash

\* C17: an account whose provider is not configured returns failure with
\* exactly one failure line and no success counted, no browser is launched
\* while it is the current account, and every account of the list is still
\* processed.
C17_MissingProviderFails ==
    /\ \A k \in 1..Len(outcomes) :
          accounts[k].provider = "missing" =>
             /\ outcomes[k] = "failed"
             /\ Len(LinesAbout(k)) = 1
    /\ success_count
          <= Cardinality({ k \in 1..Len(outcomes) :
                             accounts[k].provider # "missing" })
    /\ (pc \in {"account", "pw_start", "launch", "context", "goto", "content",
                "locate", "element", "icon", "verify", "pw_exit", "probe",
                "record"}
           /\ accounts[i].provider = "missing") =>
          /\ pc \in {"account", "record"}
          /\ opened = 0
          /\ browsers = {}
    /\ RunEnded => Len(outcomes) = Len(accounts)

\* C17 witness: a run whose first account has no provider configuration
\* went on to check in the second one.
C17_Witness ==
    /\ RunEnded
    /\ Len(accounts) = 2
    /\ accounts[1].provider = "missing"
    /\ outcomes = << "failed", "success" >>
    /\ Len(FailureLines) = 1

\* C18 as stated: a session that clicked without an error returns success,
\* unless the response to the click carried a status other than 200, and
\* then it returns failure.
C18_Non200ResponseFails ==
    (pc \in {"pw_exit", "probe"} /\ clicked /\ exitPath # "exception") =>
        check_in_result = (postStatus # "error")

\* C19 as stated: the session ends "no button found" exactly when the
\* search ran to its end without a visible candidate; a visible candidate
\* whose click raised leads to the content re-scan instead.
C19_NotFoundIffNoVisibleCandidate ==
    (pc \in {"pw_exit", "probe"} /\ discovery /\ exitPath # "exception") =>
        (exitPath = "notfound" <=> ~clickAttempted)

\* C20: every account processed so far has either been counted as a success
\* or left one failure line; after the loop the two tallies add up to the
\* total, and the summary line of a pushed message carries both counts with
\* the success count no greater than the total.
C20_TalliesPartitionAccounts ==
    /\ success_count + Len(FailureLines) = Len(outcomes)
    /\ (AfterLedger /\ accounts # << >>) =>
          success_count + Len(FailureLines) = total_count
    /\ success_count <= total_count
    /\ ~IsNone(pushed) =>
          /\ pushed[1][1] = Line("STATS", 0, success_count, total_count)
          /\ pushed[1][1].x <= pushed[1][1].y

\* C20 witness: a pushed summary of one success and one failure line for
\* two accounts.
C20_Witness ==
    /\ RunEnded
    /\ total_count = 2
    /\ success_count = 1
    /\ Len(FailureLines) = 1
    /\ ~IsNone(pushed)

\* The quota an account has in a stored fingerprint and in the report of the
\* current run, None when it has none.
PersistedQuota(fp, k) ==
    IF \E j \in 1..Len(fp[1]) : fp[1][j][1] = k
    THEN Some(fp[1][CHOOSE j \in 1..Len(fp[1]) : fp[1][j][1] = k][2])
    ELSE None
ReportedQuota(k) ==
    IF HasKey(current_balances, k)
    THEN Some(Lookup(current_balances, k).quota)
    ELSE None

C15_TimeoutFailsAccount ==
    (pc \in {"pw_exit", "probe"} /\ timedOut) => ~check_in_result

\* C15 amended: every process reaches its exit, every account that is taken
\* up reaches the end of its loop iteration, and every finished iteration is
\* followed by the next account or by the exit; a wait that ran into its
\* timeout never leaves check_in_account as an exception.
C15_RunReachesExit ==
    /\ <>(pc = "exited")
    /\ (pc = "account") ~> (pc = "record")
    /\ (pc = "record") ~> (pc = "account" \/ pc = "exited")
    /\ [](timedOut => ~raised)

\* C15 witness: the session of the second of two accounts saw a wait time
\* out, went on to a click and has returned success.
C15_Witness ==
    /\ pc = "probe"
    /\ i = 2
    /\ timedOut
    /\ clicked
    /\ check_in_result

\* The mapping account key -> quota of a report.
QuotaMap(r) ==
    [k \in { r[j].key : j \in 1..Len(r) } |-> Lookup(r, k).quota]

\* C13: two reports have the same fingerprint exactly when they map the same
\* account keys to the same quotas, whatever their insertion order and their
\* used-quota values.
C13_FingerprintOfQuotaMap ==
    ~IsNone(fnOut) =>
        (fnOut[1][1] = fnOut[1][2] <=> QuotaMap(fnIn.a) = QuotaMap(fnIn.b))

\* C13 witness: two reports of two accounts, inserted in opposite orders
\* and with different used-quota values, have got the same fingerprint.
C13_Witness ==
    /\ ~IsNone(fnOut)
    /\ Len(fnIn.a) = 2
    /\ Len(fnIn.b) = 2
    /\ fnIn.a[1].key = fnIn.b[2].key
    /\ fnIn.a[2].key = fnIn.b[1].key
    /\ fnIn.a[1].used # fnIn.b[2].used
    /\ QuotaMap(fnIn.a) = QuotaMap(fnIn.b)
    /\ fnOut[1][1] = fnOut[1][2]

\* The segments of a str between its ';': pairs of consecutive cut places.
Cuts(str) == {0, Len(str) + 1} \cup { p \in 1..Len(str) : str[p] = ";" }
Segments(str) ==
    { g \in Cuts(str) \X Cuts(str) :
        /\ g[1] < g[2]
        /\ \A p \in (g[1] + 1)..(g[2] - 1) : str[p] # ";" }
Inside(g) == (g[1] + 1)..(g[2] - 1)
HasEquals(str, g) == \E p \in Inside(g) : str[p] = "="
Least(S) == CHOOSE x \in S : \A y \in S : x <= y
Greatest(S) == CHOOSE x \in S : \A y \in S : y <= x
\* Key and value of a segment with '=': what lies between the first
\* non-blank of the segment and its first '=', and between that '=' and the
\* last non-blank.
KeyOf(str, g) ==
    SubSeq(str, Least({ p \in Inside(g) : str[p] # " " }),
                Least({ p \in Inside(g) : str[p] = "=" }) - 1)
ValueOf(str, g) ==
    SubSeq(str, Least({ p \in Inside(g) : str[p] = "=" }) + 1,
                Greatest({ p \in Inside(g) : str[p] # " " }))

\* C16 as stated: every key and every value parsed from a str has no
\* whitespace at either end.
C16_KeysAndValuesTrimmed ==
    (~IsNone(fnOut) /\ fnIn.type = "str") =>
        \A k \in DOMAIN fnOut[1] :
            /\ Strip(k) = k
            /\ Strip(fnOut[1][k]) = fnOut[1][k]

\* C16 amended: a dict is returned as it is and a value that is neither
\* dict nor str gives the empty dict; a str is cut at every ';', segments
\* without '=' are dropped, each other segment is trimmed at its two ends
\* and cut at its first '=', key and value being what lies on either side
\* - whitespace next to the '=' included - and the last segment with a key
\* gives its value; "a=1;b=2; c=3" gives {a: 1, b: 2, c: 3}.
C16_ParseCookies ==
    ~IsNone(fnOut) =>
        LET out == fnOut[1]
            str == fnIn.v
            kept == { g \in Segments(str) : HasEquals(str, g) }
        IN /\ fnIn.type = "dict" => out = fnIn.v
           /\ fnIn.type = "other" => DOMAIN out = {}
           /\ fnIn.type = "str" =>
                /\ DOMAIN out = { KeyOf(str, g) : g \in kept }
                /\ \A g \in kept :
                      (\A h \in kept :
                          KeyOf(str, h) = KeyOf(str, g) => h[1] <= g[1])
                         => out[KeyOf(str, g)] = ValueOf(str, g)
                /\ str = ExampleCookies =>
                      out = (<< "a" >> :> << "1" >>)
                               @@ (<< "b" >> :> << "2" >>)
                               @@ (<< "c" >> :> << "3" >>)

\* C16 witness: "a =a" has been parsed into the key "a " and the value "a".
C16_Witness ==
    /\ ~IsNone(fnOut)
    /\ fnIn.type = "str"
    /\ fnIn.v = << "a", " ", "=", "a" >>
    /\ DOMAIN fnOut[1] = { << "a", " " >> }
    /\ fnOut[1][<< "a", " " >>] = << "a" >>

====
